---------------------------- MODULE Spec2Model ----------------------------
(***************************************************************************)
(* Model of src/processor.py: the text normalizer (preprocess_pdf_text),   *)
(* the trade extractor (EmailParser.parse_datetime / parse_leg /           *)
(* parse_email), the per-document glue (process_email_file) and the batch  *)
(* loop (main).                                                            *)
(*                                                                         *)
(* Texts are TLA+ strings, read character by character.  The regular       *)
(* expressions of the source are written as syntax trees, node for node,   *)
(* and matched by a backtracking matcher that follows the priority rules   *)
(* of Python's re module (leftmost match, alternatives in order, greedy    *)
(* and lazy repetition, capture groups).                                   *)
(***************************************************************************)
EXTENDS Integers, Sequences, FiniteSets, TLC

VARIABLES
    files,      \* main: pdf_files, the documents found in the data directory
    idx,        \* main: how many documents the for loop is done with
    pc,         \* main: "start", "loop", "done"
    attempts,   \* main: how often each document was handed to process_email_file
    output,     \* the output directory: the trade records written, by order id
    failed,     \* main: the documents whose processing raised (logged as errors)
    content,    \* parse_email: its argument
    epc,        \* parse_email: "fields", "segment", "legs", "done"
    hdr,        \* parse_email: order_id, date_received, order_type once extracted
    sections,   \* parse_email: leg_sections
    legIdx,     \* parse_email: how many leg sections the loop is done with
    legs,       \* parse_email: legs
    logs,       \* parse_email: the levels of the log records written so far
    parsed,     \* parse_email: what parse_leg did with each section so far
    res,        \* parse_email: None while it runs, then what it returned or raised
    legText,    \* parse_leg: its argument
    legRes,     \* parse_leg: None before the call, then what it returned or raised
    dtIn,       \* parse_datetime: <<a timestamp, the same with AM/PM split>>
    dtRes,      \* parse_datetime: what it returned or raised for each of the two
    raw,        \* preprocess_pdf_text: the raw text
    norm        \* preprocess_pdf_text: <<normalize(raw), normalize(normalize(raw))>> so far

mainVars == <<files, idx, pc, attempts, output, failed>>
emailVars == <<content, epc, hdr, sections, legIdx, legs, logs, parsed, res>>
legVars == <<legText, legRes>>
dtVars == <<dtIn, dtRes>>
normVars == <<raw, norm>>
vars == <<mainVars, emailVars, legVars, dtVars, normVars>>

\* Optional values: None, or Some(v)
None == [none |-> TRUE]
Some(v) == [none |-> FALSE, v |-> v]

-----------------------------------------------------------------------------
(* Characters                                                              *)

Char(s, i) == SubSeq(s, i, i)

UpperChars == "ABCDEFGHIJKLMNOPQRSTUVWXYZ"
LowerChars == "abcdefghijklmnopqrstuvwxyz"
DigitChars == "0123456789"

Upper == {Char(UpperChars, k) : k \in 1..26}
Lower == {Char(LowerChars, k) : k \in 1..26}
Digit == {Char(DigitChars, k) : k \in 1..10}
\* \s of the re module (ASCII part), which is also what str.split() splits on
Space == {" ", "\t", "\n", "\r", "\f"}

\* str.lower() on one character, as re.IGNORECASE compares
Fold(c) ==
    IF c \in Upper
    THEN Char(LowerChars, CHOOSE k \in 1..26 : Char(UpperChars, k) = c)
    ELSE c

DigitVal(c) == (CHOOSE k \in 1..10 : Char(DigitChars, k) = c) - 1

\* int(s) for a string of decimal digits
RECURSIVE ToInt(_)
ToInt(s) ==
    IF Len(s) = 0 THEN 0
    ELSE 10 * ToInt(SubSeq(s, 1, Len(s) - 1)) + DigitVal(Char(s, Len(s)))

-----------------------------------------------------------------------------
(* Regular expressions as syntax trees                                     *)

\* an unbounded repetition count
Inf == 0 - 1

Lit(str)        == [t |-> "lit", s |-> str]
Set(chars)      == [t |-> "set", cs |-> chars, neg |-> FALSE]
NotSet(chars)   == [t |-> "set", cs |-> chars, neg |-> TRUE]
Cat(nodes)      == [t |-> "cat", rs |-> nodes]
Alt(nodes)      == [t |-> "alt", rs |-> nodes]
Rep(r, lo, hi)  == [t |-> "rep", r |-> r, lo |-> lo, hi |-> hi, lazy |-> FALSE]
LazyRep(r, lo, hi) == [t |-> "rep", r |-> r, lo |-> lo, hi |-> hi, lazy |-> TRUE]
Grp(n, r)       == [t |-> "grp", n |-> n, r |-> r]
Look(r)         == [t |-> "look", r |-> r]
Eos             == [t |-> "eos"]

Star(r)     == Rep(r, 0, Inf)
Plus(r)     == Rep(r, 1, Inf)
Opt(r)      == Rep(r, 0, 1)
LazyStar(r) == LazyRep(r, 0, Inf)
LazyPlus(r) == LazyRep(r, 1, Inf)

d_      == Set(Digit)               \* \d
s_      == Set(Space)               \* \s
S_      == NotSet(Space)            \* \S
AZ_     == Set(Upper)               \* [A-Z]
Alpha_  == Set(Upper \cup Lower)    \* [A-Za-z]
Any_    == NotSet({})               \* . under re.DOTALL
NotNL_  == NotSet({"\n"})           \* [^\n]

\* the groups of a match: group number -> <<start, end>>, <<0, 0>> for None
MaxGroups == 8
NoGroups == [n \in 1..MaxGroups |-> <<0, 0>>]

InSet(h, c, ci) ==
    LET in == IF ci THEN \E x \in h.cs : Fold(x) = Fold(c) ELSE c \in h.cs
    IN  IF h.neg THEN ~in ELSE in

LitAt(lit, s, i, ci) ==
    /\ i + Len(lit) - 1 <= Len(s)
    /\ IF ci
       THEN \A k \in 1..Len(lit) : Fold(Char(s, i + k - 1)) = Fold(Char(lit, k))
       ELSE SubSeq(s, i, i + Len(lit) - 1) = lit

SetMin(S) == CHOOSE x \in S : \A y \in S : x <= y
SetMax(S) == CHOOSE x \in S : \A y \in S : x >= y

\* how many consecutive characters of s from position i on are in the class h
RECURSIVE RunUp(_, _, _, _)
RunUp(h, s, i, ci) ==
    IF i > Len(s) \/ ~InSet(h, Char(s, i), ci) THEN 0
    ELSE 1 + RunUp(h, s, i + 1, ci)

RunLen(h, s, i, ci) ==
    IF h.neg
    THEN LET stop == {j \in i..Len(s) : ~InSet(h, Char(s, j), ci)}
         IN  IF stop = {} THEN Len(s) - i + 1 ELSE SetMin(stop) - i
    ELSE RunUp(h, s, i, ci)

Dec(n) == IF n = Inf THEN Inf ELSE IF n = 0 THEN 0 ELSE n - 1

\* the concatenation f[lo] \o ... \o f[hi] of sequences
RECURSIVE ConcatRange(_, _, _)
ConcatRange(f, lo, hi) ==
    IF lo > hi THEN <<>>
    ELSE IF lo = hi THEN f[lo]
    ELSE LET mid == (lo + hi) \div 2
         IN  ConcatRange(f, lo, mid) \o ConcatRange(f, mid + 1, hi)

\* the same for strings
RECURSIVE ConcatStr(_, _, _)
ConcatStr(f, lo, hi) ==
    IF lo > hi THEN ""
    ELSE IF lo = hi THEN f[lo]
    ELSE LET mid == (lo + hi) \div 2
         IN  ConcatStr(f, lo, mid) \o ConcatStr(f, mid + 1, hi)

\* the states sts without the repetitions of an earlier state: equal states
\* go on in the same way, so only the first of them counts
Uniq(sts) ==
    LET first == {j \in 1..Len(sts) : \A k \in 1..(j - 1) : sts[k] # sts[j]}
    IN  IF Cardinality(first) = Len(sts) THEN sts
        ELSE [n \in 1..Cardinality(first) |->
                sts[CHOOSE j \in first : Cardinality({x \in first : x < j}) = n - 1]]

(* M(h, s, i, g, ci): every way the node h matches s from position i on,   *)
(* with the groups g set so far, as the sequence of <<end, groups>> states  *)
(* in the order in which a backtracking matcher tries them: alternatives   *)
(* left to right, a greedy repetition longest first, a lazy one shortest   *)
(* first.  The head of the sequence is the match the re module reports.    *)
RECURSIVE M(_, _, _, _, _)
RECURSIVE MSeq(_, _, _, _, _, _)

\* the node h continued from each of the states sts, in order
MEach(h, sts, s, ci) ==
    ConcatRange([j \in 1..Len(sts) |-> M(h, s, sts[j].e, sts[j].g, ci)], 1, Len(sts))

\* the nodes rs[lo..hi] one after the other, from each of the states sts
MSeq(rs, lo, hi, sts, s, ci) ==
    IF sts = <<>> \/ lo > hi THEN sts
    ELSE IF lo = hi THEN MEach(rs[lo], sts, s, ci)
    ELSE LET mid == (lo + hi) \div 2
             left == MSeq(rs, lo, mid, sts, s, ci)
         IN  IF left = <<>> THEN <<>> ELSE MSeq(rs, mid + 1, hi, left, s, ci)

M(h, s, i, g, ci) ==
    LET here == <<[e |-> i, g |-> g]>>
    IN
    CASE h.t = "lit" ->
            IF LitAt(h.s, s, i, ci) THEN <<[e |-> i + Len(h.s), g |-> g]>> ELSE <<>>
      [] h.t = "set" ->
            IF i <= Len(s) /\ InSet(h, Char(s, i), ci)
            THEN <<[e |-> i + 1, g |-> g]>> ELSE <<>>
      [] h.t = "cat" -> Uniq(MSeq(h.rs, 1, Len(h.rs), here, s, ci))
      [] h.t = "alt" ->
            ConcatRange([k \in 1..Len(h.rs) |-> M(h.rs[k], s, i, g, ci)], 1, Len(h.rs))
      [] h.t = "grp" ->
            LET in == M(h.r, s, i, g, ci)
            IN  [j \in 1..Len(in) |->
                    [e |-> in[j].e, g |-> [in[j].g EXCEPT ![h.n] = <<i, in[j].e>>]]]
      [] h.t = "look" ->
            LET in == M(h.r, s, i, g, ci)
            IN  IF in = <<>> THEN <<>> ELSE <<[e |-> i, g |-> in[1].g]>>
      [] h.t = "eos" ->
            \* $ : the end of the string, or just before a final newline
            IF i = Len(s) + 1 \/ (i = Len(s) /\ Char(s, i) = "\n") THEN here ELSE <<>>
      [] h.t = "rep" /\ h.r.t = "set" ->
            LET run == RunLen(h.r, s, i, ci)
                top == IF h.hi # Inf /\ run > h.hi THEN h.hi ELSE run
            IN  IF top < h.lo THEN <<>>
                ELSE [j \in 1..(top - h.lo + 1) |->
                        [e |-> IF h.lazy THEN i + h.lo + j - 1 ELSE i + top - j + 1,
                         g |-> g]]
      [] h.t = "rep" /\ h.r.t # "set" ->
            LET once == IF h.hi = 0 THEN <<>>
                        ELSE SelectSeq(M(h.r, s, i, g, ci), LAMBDA st : st.e > i)
                again == [h EXCEPT !.lo = Dec(h.lo), !.hi = Dec(h.hi)]
                more == MEach(again, once, s, ci)
                stop == IF h.lo = 0 THEN here ELSE <<>>
            IN  IF h.lazy THEN stop \o more ELSE more \o stop

NoMatch == [ok |-> FALSE, b |-> 0, e |-> 0, g |-> NoGroups]

\* the match object for the states all found from position i: the first state
FirstOf(all, i) ==
    IF all = <<>> THEN NoMatch
    ELSE [ok |-> TRUE, b |-> i, e |-> all[1].e, g |-> all[1].g]

\* the first state of all, if any
HeadOf(all) ==
    IF all = <<>> THEN [ok |-> FALSE]
    ELSE [ok |-> TRUE, e |-> all[1].e, g |-> all[1].g]

(* The first state in which the node h matches from one of the states      *)
(* sts[a..b], the states tried in their order: the head of what MEach      *)
(* finds, found without the states behind it.                              *)
RECURSIVE FirstLast(_, _, _, _, _, _)
RECURSIVE LastOr(_, _, _, _, _, _, _)

LastOr(left, h, sts, a, b, s, ci) ==
    IF left.ok THEN left ELSE FirstLast(h, sts, a, b, s, ci)

FirstLast(h, sts, a, b, s, ci) ==
    IF a > b THEN [ok |-> FALSE]
    ELSE IF a < b
    THEN LastOr(FirstLast(h, sts, a, (a + b) \div 2, s, ci),
                h, sts, ((a + b) \div 2) + 1, b, s, ci)
    ELSE HeadOf(M(h, s, sts[a].e, sts[a].g, ci))

\* the first state in which the node h matches from one of the states sts
LastOf(h, sts, s, ci) == FirstLast(h, sts, 1, Len(sts), s, ci)

\* the match object for the state st found from position i
MatchOf(st, i) ==
    IF ~st.ok THEN NoMatch ELSE [ok |-> TRUE, b |-> i, e |-> st.e, g |-> st.g]

\* pattern.match(s, pos): the match starting exactly at position i.  Of a
\* sequence of nodes all but the last are matched in every way, and the last
\* from each of these states in turn until it matches.
MatchAt(re, s, i, ci) ==
    IF re.t = "cat"
    THEN MatchOf(LastOf(re.rs[Len(re.rs)],
                        MSeq(re.rs, 1, Len(re.rs) - 1, <<[e |-> i, g |-> NoGroups]>>, s, ci),
                        s, ci), i)
    ELSE FirstOf(M(re, s, i, NoGroups, ci), i)

\* whether the node h can match whatever character comes next, the end of
\* the string included
RECURSIVE Free(_)
Free(h) ==
    CASE h.t = "lit" -> h.s = ""
      [] h.t = "set" -> FALSE
      [] h.t = "cat" -> \A k \in 1..Len(h.rs) : Free(h.rs[k])
      [] h.t = "alt" -> \E k \in 1..Len(h.rs) : Free(h.rs[k])
      [] h.t = "grp" -> Free(h.r)
      [] h.t = "look" -> Free(h.r)
      [] h.t = "eos" -> TRUE
      [] h.t = "rep" -> h.lo = 0 \/ Free(h.r)

\* the characters that can come next where the node h matches, unless it is
\* Free: .any says that any character can
RECURSIVE StartOf(_)
RECURSIVE StartOfSeq(_, _)
AnyStart == [any |-> TRUE, cs |-> {}]
NoStart == [any |-> FALSE, cs |-> {}]
EitherStart(a, b) == [any |-> a.any \/ b.any, cs |-> a.cs \cup b.cs]

\* the same for the nodes rs[k..] one after the other
StartOfSeq(rs, k) ==
    IF k > Len(rs) THEN NoStart
    ELSE IF Free(rs[k]) THEN EitherStart(StartOf(rs[k]), StartOfSeq(rs, k + 1))
    ELSE StartOf(rs[k])

StartOf(h) ==
    CASE h.t = "lit" -> IF h.s = "" THEN NoStart ELSE [any |-> FALSE, cs |-> {Char(h.s, 1)}]
      [] h.t = "set" -> IF h.neg THEN AnyStart ELSE [any |-> FALSE, cs |-> h.cs]
      [] h.t = "cat" -> StartOfSeq(h.rs, 1)
      [] h.t = "alt" -> [any |-> \E k \in 1..Len(h.rs) : StartOf(h.rs[k]).any,
                         cs |-> UNION {StartOf(h.rs[k]).cs : k \in 1..Len(h.rs)}]
      [] h.t = "grp" -> StartOf(h.r)
      [] h.t = "look" -> StartOf(h.r)
      [] h.t = "eos" -> NoStart
      [] h.t = "rep" -> StartOf(h.r)

\* the characters at which the scan for the pattern re has to try a match,
\* case folded when case is ignored: .any when it has to try everywhere
Starts(re, ci) ==
    IF Free(re) \/ StartOf(re).any THEN AnyStart
    ELSE [any |-> FALSE,
          cs |-> IF ci THEN {Fold(c) : c \in StartOf(re).cs} ELSE StartOf(re).cs]

\* the positions of s at which a match can begin
Candidates(s, starts, ci) ==
    IF starts.any THEN 1..(Len(s) + 1)
    ELSE IF ci THEN {i \in 1..Len(s) : Fold(Char(s, i)) \in starts.cs}
    ELSE {i \in 1..Len(s) : Char(s, i) \in starts.cs}

\* the positions of s at which the pattern matches
Hits(re, s, ci) ==
    {i \in Candidates(s, Starts(re, ci), ci) : MatchAt(re, s, i, ci).ok}

\* the leftmost match that begins at one of the positions cands, all of
\* them in lo..hi
RECURSIVE FirstAmong(_, _, _, _, _, _)
RECURSIVE FirstOr(_, _, _, _, _, _, _)

\* the match left, or without one the leftmost match among cands
FirstOr(left, re, s, cands, lo, hi, ci) ==
    IF left.ok THEN left ELSE FirstAmong(re, s, cands, lo, hi, ci)

FirstAmong(re, s, cands, lo, hi, ci) ==
    IF cands = {} THEN NoMatch
    ELSE IF lo = hi THEN MatchAt(re, s, lo, ci)
    ELSE FirstOr(FirstAmong(re, s, {c \in cands : c <= (lo + hi) \div 2},
                            lo, (lo + hi) \div 2, ci),
                 re, s, {c \in cands : c > (lo + hi) \div 2},
                 ((lo + hi) \div 2) + 1, hi, ci)

\* re.search(pattern, s): the leftmost match; .b is where it begins
Search(re, s, ci) ==
    FirstAmong(re, s, Candidates(s, Starts(re, ci), ci), 1, Len(s) + 1, ci)

\* match.group(n): None for a group that took no part in the match
Group(m, s, n) ==
    IF m.g[n] = <<0, 0>> THEN None ELSE Some(SubSeq(s, m.g[n][1], m.g[n][2] - 1))

\* the replacement template of re.sub: literal text and \n group references
Ref(n) == [ref |-> n, s |-> ""]
Txt(str) == [ref |-> 0, s |-> str]

Expand(tpl, m, s) ==
    ConcatStr([k \in 1..Len(tpl) |->
                  IF tpl[k].ref = 0 THEN tpl[k].s
                  ELSE IF m.g[tpl[k].ref] = <<0, 0>> THEN ""
                  ELSE SubSeq(s, m.g[tpl[k].ref][1], m.g[tpl[k].ref][2] - 1)],
              1, Len(tpl))

\* re.sub(pattern, template, s): every non-overlapping match, left to right,
\* replaced; the text between the matches kept.  hits are the positions at
\* which the pattern matches, pos the position the scan has reached.
RECURSIVE SubFrom(_, _, _, _, _)
RECURSIVE SubMatch(_, _, _, _, _, _)

\* the match m replaced, and the scan continued behind it
SubMatch(re, tpl, s, pos, hits, m) ==
    SubSeq(s, pos, m.b - 1) \o Expand(tpl, m, s) \o SubFrom(re, tpl, s, m.e, hits)

SubFrom(re, tpl, s, pos, hits) ==
    IF {h \in hits : h >= pos} = {} THEN SubSeq(s, pos, Len(s))
    ELSE SubMatch(re, tpl, s, pos, hits,
                  MatchAt(re, s, SetMin({h \in hits : h >= pos}), FALSE))

Sub(re, tpl, s) ==
    SubFrom(re, tpl, s, 1, {i \in Hits(re, s, FALSE) : i <= Len(s)})

\* ' '.join(s.split()): runs of whitespace become one space, none at the ends
JoinSplit(s) ==
    LET words == {j \in 1..Len(s) : Char(s, j) \notin Space}
        last == IF words = {} THEN 0 ELSE SetMax(words)
        piece == [j \in 1..Len(s) |->
                    IF j \in words THEN Char(s, j)
                    ELSE IF j > 1 /\ (j - 1) \in words /\ j < last THEN " "
                    ELSE ""]
    IN  ConcatStr(piece, 1, Len(s))

\* s.strip()
Strip(s) ==
    LET words == {j \in 1..Len(s) : Char(s, j) \notin Space}
    IN  IF words = {} THEN "" ELSE SubSeq(s, SetMin(words), SetMax(words))

-----------------------------------------------------------------------------
(* EmailParser.REGEX_PATTERNS and EmailParser.LEG_PATTERN                  *)

AmPm_ == Alt(<<Lit("AM"), Lit("PM")>>)
Zone_ == Cat(<<Lit("E"), Set({"D", "S"}), Lit("T")>>)            \* E[DS]T
BoughtSold_ == Alt(<<Lit("Bought"), Lit("Sold")>>)
Number_ == Cat(<<Plus(d_), Opt(Lit(".")), Star(d_)>>)            \* \d+\.?\d*
\* \d{1,2}/\d{1,2}/\d{2,4}
SlashDate_ == Cat(<<Rep(d_, 1, 2), Lit("/"), Rep(d_, 1, 2), Lit("/"), Rep(d_, 2, 4)>>)

\* r'order\s*#?\s*(\d+)': a label that does not insist on the '#'
ORDER_ID_PATTERN_NoHash ==
    Cat(<<Lit("order"), Star(s_), Opt(Lit("#")), Star(s_), Grp(1, Plus(d_))>>)

\* r'order\s*#\s*(\d+)'
ORDER_ID_PATTERN ==
    Cat(<<Lit("order"), Star(s_), Lit("#"), Star(s_), Grp(1, Plus(d_))>>)

\* r'Received\s*At:?\s*([A-Za-z]+\s*\d+\s*\d*,?\s*\d{4}\s+\d+\s*\d*:?\d+\s*:?\d+\s*\d*\s*(?:AM|PM)\s+E[DS]T)'
DATE_RECEIVED_PATTERN ==
    Cat(<<Lit("Received"), Star(s_), Lit("At"), Opt(Lit(":")), Star(s_),
          Grp(1, Cat(<<Plus(Alpha_), Star(s_), Plus(d_), Star(s_), Star(d_),
                       Opt(Lit(",")), Star(s_), Rep(d_, 4, 4), Plus(s_),
                       Plus(d_), Star(s_), Star(d_), Opt(Lit(":")), Plus(d_),
                       Star(s_), Opt(Lit(":")), Plus(d_), Star(s_), Star(d_),
                       Star(s_), AmPm_, Plus(s_), Zone_>>))>>)

\* r'Submitted\s+Order\s+T?ype:?\s*([^\n]+?)(?=\s*Fill|$)'
ORDER_TYPE_PATTERN ==
    Cat(<<Lit("Submitted"), Plus(s_), Lit("Order"), Plus(s_), Opt(Lit("T")),
          Lit("ype"), Opt(Lit(":")), Star(s_), Grp(1, LazyPlus(NotNL_)),
          Look(Alt(<<Cat(<<Star(s_), Lit("Fill")>>), Eos>>))>>)

\* r'(?:(?:Bought|Sold)\s+\d+\s+[A-Z]+(?:\s+\d+)*\s+(?:\d{1,2}/\d{1,2}/\d{2,4}|
\*   \d{1,2}\s*\d*/\d{1,2}/\d{2,4})?\s*(?:Put|Call)?\s*\d+\.?\d*\s+@\s+\d+\.?\d*)'
LEGS_PATTERN ==
    Cat(<<BoughtSold_, Plus(s_), Plus(d_), Plus(s_), Plus(AZ_),
          Star(Cat(<<Plus(s_), Plus(d_)>>)), Plus(s_),
          Opt(Alt(<<SlashDate_,
                    Cat(<<Rep(d_, 1, 2), Star(s_), Star(d_), Lit("/"),
                          Rep(d_, 1, 2), Lit("/"), Rep(d_, 2, 4)>>)>>)),
          Star(s_), Opt(Alt(<<Lit("Put"), Lit("Call")>>)), Star(s_),
          Number_, Plus(s_), Lit("@"), Plus(s_), Number_>>)

\* the dictionary: its keys are "order_id", "date_received", "order_type", "legs"
REGEX_PATTERNS ==
    [order_id |-> ORDER_ID_PATTERN,
     date_received |-> DATE_RECEIVED_PATTERN,
     order_type |-> ORDER_TYPE_PATTERN,
     legs |-> LEGS_PATTERN]

\* LEG_PATTERN with the option triple optional: a change that lets a plain
\* security leg through (used to test the claims against a changed parser)
LEG_PATTERN_OptionalTriple ==
    Cat(<<Grp(1, BoughtSold_), Plus(s_),
          Grp(2, Plus(d_)), Plus(s_),
          Grp(3, Plus(AZ_)),
          Star(Cat(<<Plus(s_), Plus(d_)>>)), Plus(s_),
          Opt(Cat(<<Grp(4, SlashDate_), Plus(s_)>>)),
          Opt(Cat(<<Grp(5, Alt(<<Lit("Put"), Lit("Call")>>)), Plus(s_),
                    Grp(6, Number_), Plus(s_)>>)),
          Lit("@"), Plus(s_),
          Grp(7, Number_),
          Opt(Cat(<<LazyStar(Any_), Lit("Filled"), Plus(s_), Lit("at:"), Star(s_),
                    Grp(8, Cat(<<LazyStar(Any_), AmPm_, Plus(s_), Zone_>>))>>))>>)

\* r'(Bought|Sold)\s+' r'(\d+)\s+' r'([A-Z]+)' r'(?:\s+\d+)*\s+'
\* r'(\d{1,2}/\d{1,2}/\d{2,4})\s+' r'(Put|Call)\s+' r'(\d+\.?\d*)\s+' r'@\s+'
\* r'(\d+\.?\d*)' r'(?:.*?Filled\s+at:\s*(.*?(?:AM|PM)\s+E[DS]T))?'
LEG_PATTERN ==
    Cat(<<Grp(1, BoughtSold_), Plus(s_),
          Grp(2, Plus(d_)), Plus(s_),
          Grp(3, Plus(AZ_)),
          Star(Cat(<<Plus(s_), Plus(d_)>>)), Plus(s_),
          Grp(4, SlashDate_), Plus(s_),
          Grp(5, Alt(<<Lit("Put"), Lit("Call")>>)), Plus(s_),
          Grp(6, Number_), Plus(s_),
          Lit("@"), Plus(s_),
          Grp(7, Number_),
          Opt(Cat(<<LazyStar(Any_), Lit("Filled"), Plus(s_), Lit("at:"), Star(s_),
                    Grp(8, Cat(<<LazyStar(Any_), AmPm_, Plus(s_), Zone_>>))>>))>>)

-----------------------------------------------------------------------------
(* datetime.strptime                                                       *)

Months == <<"jan", "feb", "mar", "apr", "may", "jun",
            "jul", "aug", "sep", "oct", "nov", "dec">>

\* the regular expressions strptime builds for its directives
Dir_b == Alt([k \in 1..12 |-> Lit(Months[k])])
Dir_d == Alt(<<Cat(<<Lit("3"), Set({"0", "1"})>>),
               Cat(<<Set({"1", "2"}), d_>>),
               Cat(<<Lit("0"), Set(Digit \ {"0"})>>),
               Set(Digit \ {"0"}),
               Cat(<<Lit(" "), Set(Digit \ {"0"})>>)>>)
Dir_m == Alt(<<Cat(<<Lit("1"), Set({"0", "1", "2"})>>),
               Cat(<<Lit("0"), Set(Digit \ {"0"})>>),
               Set(Digit \ {"0"})>>)
Dir_I == Dir_m                                   \* 1[0-2]|0[1-9]|[1-9]
Dir_M == Alt(<<Cat(<<Set({"0", "1", "2", "3", "4", "5"}), d_>>), d_>>)
Dir_S == Alt(<<Cat(<<Lit("6"), Set({"0", "1"})>>),
               Cat(<<Set({"0", "1", "2", "3", "4", "5"}), d_>>), d_>>)
Dir_Y == Rep(d_, 4, 4)
Dir_y == Rep(d_, 2, 2)
Dir_p == Alt(<<Lit("am"), Lit("pm")>>)

\* "%b %d, %Y %I:%M:%S %p <zone>"
StampFormat(zone) ==
    Cat(<<Grp(1, Dir_b), Plus(s_), Grp(2, Dir_d), Lit(","), Plus(s_),
          Grp(3, Dir_Y), Plus(s_), Grp(4, Dir_I), Lit(":"), Grp(5, Dir_M),
          Lit(":"), Grp(6, Dir_S), Plus(s_), Grp(7, Dir_p), Plus(s_), Lit(zone)>>)

\* "%m/%d/%y"
ExpiryFormat ==
    Cat(<<Grp(1, Dir_m), Lit("/"), Grp(2, Dir_d), Lit("/"), Grp(3, Dir_y)>>)

IsLeap(y) == (y % 4 = 0 /\ y % 100 # 0) \/ y % 400 = 0
DaysInMonth(y, m) ==
    IF m = 2 THEN (IF IsLeap(y) THEN 29 ELSE 28)
    ELSE IF m \in {4, 6, 9, 11} THEN 30 ELSE 31

RECURSIVE FoldStr(_)
FoldStr(s) == IF Len(s) = 0 THEN "" ELSE Fold(Char(s, 1)) \o FoldStr(SubSeq(s, 2, Len(s)))

ValueError(msg) == [ok |-> FALSE, exc |-> "ValueError", msg |-> msg]
KeyError(msg) == [ok |-> FALSE, exc |-> "KeyError", msg |-> msg]
AttributeError(msg) == [ok |-> FALSE, exc |-> "AttributeError", msg |-> msg]
Ok(v) == [ok |-> TRUE, val |-> v]

\* the datetime constructor: it rejects a date that does not exist
MakeDatetime(y, mo, dd, h, mi, sec) ==
    IF y < 1 THEN ValueError("year is out of range")
    ELSE IF sec > 59 THEN ValueError("second must be in 0..59")
    ELSE IF dd < 1 \/ dd > DaysInMonth(y, mo)
    THEN ValueError("day is out of range for month")
    ELSE Ok([year |-> y, month |-> mo, day |-> dd,
             hour |-> h, minute |-> mi, second |-> sec])

\* strptime accepts the match m of the format's regular expression when it
\* uses up the whole string
WholeMatch(m, s) ==
    IF ~m.ok THEN ValueError("time data does not match format")
    ELSE IF m.e # Len(s) + 1 THEN ValueError("unconverted data remains")
    ELSE Ok(m)

\* strptime: the format's regular expression must match from the start,
\* ignoring case, and the match must use up the whole string
StrptimeMatch(s, fmt) == WholeMatch(MatchAt(fmt, s, 1, TRUE), s)

\* the datetime of the fields matched for "%b %d, %Y %I:%M:%S %p"
StampFields(b, d, Y, I, M_, S, p) ==
    MakeDatetime(ToInt(Y),
                 CHOOSE k \in 1..12 : Months[k] = FoldStr(b),
                 ToInt(Strip(d)),
                 (I % 12) + (IF FoldStr(p) = "pm" THEN 12 ELSE 0),
                 ToInt(M_), ToInt(S))

\* the datetime of the strptime match r of s
StampOf(r, s) ==
    IF ~r.ok THEN r
    ELSE StampFields(Group(r.val, s, 1).v, Group(r.val, s, 2).v,
                     Group(r.val, s, 3).v, ToInt(Group(r.val, s, 4).v),
                     Group(r.val, s, 5).v, Group(r.val, s, 6).v,
                     Group(r.val, s, 7).v)

\* datetime.strptime(s, "%b %d, %Y %I:%M:%S %p <zone>")
StrptimeStamp(s, zone) == StampOf(StrptimeMatch(s, StampFormat(zone)), s)

\* the datetime of the fields matched for "%m/%d/%y": a two-digit year up
\* to 68 is in the 2000s
ExpiryFields(m, d, y) ==
    MakeDatetime(IF y <= 68 THEN 2000 + y ELSE 1900 + y, ToInt(m), ToInt(Strip(d)), 0, 0, 0)

\* the date of the strptime match r of s
ExpiryOf(r, s) ==
    IF ~r.ok THEN r
    ELSE ExpiryFields(Group(r.val, s, 1).v, Group(r.val, s, 2).v,
                      ToInt(Group(r.val, s, 3).v))

\* datetime.strptime(s, "%m/%d/%y")
StrptimeExpiry(s) == ExpiryOf(StrptimeMatch(s, ExpiryFormat), s)

-----------------------------------------------------------------------------
(* EmailParser.parse_datetime                                              *)

\* r'(\d+:\d+:\d+)\s+A\s*M' without the \s* : a repair that misses the split token
RepairAM_NoSplit ==
    Cat(<<Grp(1, Cat(<<Plus(d_), Lit(":"), Plus(d_), Lit(":"), Plus(d_)>>)),
          Plus(s_), Lit("AM")>>)

\* r'(\d+:\d+:\d+)\s+A\s*M'
RepairAM ==
    Cat(<<Grp(1, Cat(<<Plus(d_), Lit(":"), Plus(d_), Lit(":"), Plus(d_)>>)),
          Plus(s_), Lit("A"), Star(s_), Lit("M")>>)

\* r'(\d+:\d+:\d+)\s+P\s*M'
RepairPM ==
    Cat(<<Grp(1, Cat(<<Plus(d_), Lit(":"), Plus(d_), Lit(":"), Plus(d_)>>)),
          Plus(s_), Lit("P"), Star(s_), Lit("M")>>)

\* r'E\s*([DS]T)'
RepairZone ==
    Cat(<<Lit("E"), Star(s_), Grp(1, Cat(<<Set({"D", "S"}), Lit("T")>>))>>)

\* r'([A-Za-z]+)\s+(\d+)\s+(\d+)'
RepairDay ==
    Cat(<<Grp(1, Plus(Alpha_)), Plus(s_), Grp(2, Plus(d_)), Plus(s_), Grp(3, Plus(d_))>>)

\* the five normalisation steps of parse_datetime
RepairStamp(date_str) ==
    JoinSplit(
        Sub(RepairDay, <<Ref(1), Txt(" "), Ref(2), Ref(3)>>,
            Sub(RepairZone, <<Txt("E"), Ref(1)>>,
                Sub(RepairPM, <<Ref(1), Txt(" PM")>>,
                    Sub(RepairAM, <<Ref(1), Txt(" AM")>>, date_str)))))

\* "except ValueError: return strptime(... EST)", and the outer handler that
\* logs the ValueError of this second attempt and raises it again
TryEST(est) ==
    IF est.ok THEN [ok |-> TRUE, val |-> est.val, logs |-> <<>>]
    ELSE [ok |-> FALSE, exc |-> est.exc, msg |-> est.msg, logs |-> <<"error">>]

\* "try: return strptime(... EDT)"
TryEDT(s, edt) ==
    IF edt.ok THEN [ok |-> TRUE, val |-> edt.val, logs |-> <<>>]
    ELSE TryEST(StrptimeStamp(s, "EST"))

\* the two strptime attempts on the repaired string s
StrptimeEither(s) == TryEDT(s, StrptimeStamp(s, "EDT"))

\* parse_datetime(date_str): a datetime, or the ValueError of the second
\* strptime, logged as an error
parse_datetime(date_str) == StrptimeEither(Strip(RepairStamp(date_str)))

-----------------------------------------------------------------------------
(* EmailParser.parse_leg                                                   *)

\* float(s) for s matching \d+\.?\d* : the integer part and the fraction
\* digits, trailing zeros dropped
RECURSIVE DropZeros(_)
DropZeros(s) ==
    IF Len(s) > 0 /\ Char(s, Len(s)) = "0" THEN DropZeros(SubSeq(s, 1, Len(s) - 1)) ELSE s

ToFloat(s) ==
    LET n == RunLen(d_, s, 1, FALSE)
    IN  [ip |-> ToInt(SubSeq(s, 1, n)),
         fp |-> IF n + 1 < Len(s) THEN DropZeros(SubSeq(s, n + 2, Len(s))) ELSE ""]

\* the truth value of an optional string: None and '' are false
Truthy(o) == ~o.none /\ o.v # ""

\* the fill time of the match of REGEX_PATTERNS['fill_time'], or the
\* ValueError for a leg that has none
FillTimeOf(fill_time_match, leg_text) ==
    IF fill_time_match.ok
    THEN [ok |-> TRUE, val |-> Group(fill_time_match, leg_text, 1).v]
    ELSE [ok |-> FALSE, exc |-> "ValueError",
          msg |-> "No fill time found in leg text", logs |-> <<"error">>]

\* "if not fill_time": the fill time of the leg pattern, or else the one found
\* with REGEX_PATTERNS['fill_time'], a key the dictionary does not have
ResolveFillTime(leg_text, fill_time) ==
    IF Truthy(fill_time) THEN [ok |-> TRUE, val |-> fill_time.v]
    ELSE IF "fill_time" \notin DOMAIN REGEX_PATTERNS
    THEN [ok |-> FALSE, exc |-> "KeyError", msg |-> "fill_time", logs |-> <<>>]
    ELSE FillTimeOf(Search(REGEX_PATTERNS["fill_time"], leg_text, FALSE), leg_text)

\* the TradeLeg of the groups g: the expiration is parsed first, the fill
\* time last
MakeLeg(g, expiration, fill_time) ==
    IF ~expiration.ok
    THEN [ok |-> FALSE, exc |-> expiration.exc, msg |-> expiration.msg, logs |-> <<>>]
    ELSE IF ~fill_time.ok
    THEN [ok |-> FALSE, exc |-> fill_time.exc, msg |-> fill_time.msg, logs |-> fill_time.logs]
    ELSE [ok |-> TRUE,
          val |-> [action |-> g[1].v,
                   quantity |-> ToInt(g[2].v),
                   symbol |-> g[3].v,
                   expiration |-> IF Truthy(g[4]) THEN Some(expiration.val) ELSE None,
                   option_type |-> IF Truthy(g[5]) THEN g[5] ELSE None,
                   strike |-> IF Truthy(g[6]) THEN Some(ToFloat(g[6].v)) ELSE None,
                   fill_price |-> ToFloat(g[7].v),
                   fill_time |-> fill_time.val],
          logs |-> <<>>]

\* parse_leg from line 92 on, with the fill time text resolved or not
LegTimed(g, fill_time) ==
    IF ~fill_time.ok THEN fill_time
    ELSE MakeLeg(g, IF Truthy(g[4]) THEN StrptimeExpiry(g[4].v) ELSE Ok(None),
                 parse_datetime(fill_time.val))

\* parse_leg from "match.groups()" on
LegGrouped(leg_text, g) == LegTimed(g, ResolveFillTime(leg_text, g[8]))

\* parse_leg from "if not match" on
LegMatched(leg_text, match) ==
    IF ~match.ok
    THEN [ok |-> FALSE, exc |-> "ValueError", msg |-> "Invalid leg format",
          logs |-> <<"error">>]
    ELSE LegGrouped(leg_text, [n \in 1..MaxGroups |-> Group(match, leg_text, n)])

\* parse_leg(leg_text): a TradeLeg, or the exception it raises; logs are the
\* levels of the log records written on the way
parse_leg(leg_text) == LegMatched(leg_text, Search(LEG_PATTERN, leg_text, FALSE))

-----------------------------------------------------------------------------
(* EmailParser.parse_email                                                 *)

\* r'Fill\s+Details(.*?)(?:If you have any questions|$)'
FILL_DETAILS_PATTERN ==
    Cat(<<Lit("Fill"), Plus(s_), Lit("Details"), Grp(1, LazyStar(Any_)),
          Alt(<<Lit("If you have any questions"), Eos>>)>>)

\* r'(?=(?:Bought|Sold)\s+\d+\s+[A-Z]+)'
LEG_SPLIT_PATTERN ==
    Look(Cat(<<BoughtSold_, Plus(s_), Plus(d_), Plus(s_), Plus(AZ_)>>))

\* r'(Bought|Sold)'
ACTION_PATTERN == Grp(1, BoughtSold_)

\* content.replace('\n', ' ').replace('\r', ' ')
ReplaceNewlines(s) ==
    ConcatStr([j \in 1..Len(s) |->
                  IF Char(s, j) \in {"\n", "\r"} THEN " " ELSE Char(s, j)], 1, Len(s))

\* s cut at the positions cuts
CutAt(s, cuts) ==
    LET n == Cardinality(cuts)
        cut[k \in 0..(n + 1)] ==
            IF k = 0 THEN 1
            ELSE IF k = n + 1 THEN Len(s) + 1
            ELSE SetMin({c \in cuts : c > cut[k - 1] \/ (k = 1 /\ c = 1)})
    IN  [k \in 1..(n + 1) |-> SubSeq(s, cut[k - 1], cut[k] - 1)]

\* re.split(pattern, s) for a pattern that matches the empty string only:
\* s is cut at every position where the pattern matches
SplitAt(re, s) == CutAt(s, {i \in Hits(re, s, FALSE) : i <= Len(s)})

\* [part.strip() for part in leg_parts]
StripAll(parts) == [k \in 1..Len(parts) |-> Strip(parts[k])]

\* the leg sections of the fill details: the stripped, non-empty parts of the
\* split that contain an action word
LegSections(fill_content) ==
    SelectSeq(SelectSeq(StripAll(SplitAt(LEG_SPLIT_PATTERN, fill_content)),
                        LAMBDA part : part # ""),
              LAMBDA part : Search(ACTION_PATTERN, part, FALSE).ok)

\* the except clause of the leg loop, "except ValueError": without it every
\* exception of parse_leg would leave the loop
CatchesNothing(exc) == FALSE

\* the except clause of the leg loop: "except ValueError"
LegLoopCatches(exc) == exc = "ValueError"

\* a handler of the leg loop that logs nothing
SkipSilently(r) == r.logs

\* what the handler of the leg loop leaves in the log for a leg it skips:
\* what parse_leg logged, then its own warning
SkipLogs(r) == r.logs \o <<"warning">>

\* the leg loop of parse_email over leg_sections[k..]: an exception of
\* parse_leg that the loop catches is logged as a warning and the leg
\* skipped; any other exception leaves the loop
RECURSIVE LegLoop(_, _, _, _)
RECURSIVE LegStep(_, _, _, _, _)

\* one iteration, r being what parse_leg did with leg_sections[k]
LegStep(leg_sections, k, acc, log, r) ==
    IF r.ok
    THEN LegLoop(leg_sections, k + 1, Append(acc, r.val), log \o r.logs)
    ELSE IF LegLoopCatches(r.exc)
    THEN LegLoop(leg_sections, k + 1, acc, log \o SkipLogs(r))
    ELSE [ok |-> FALSE, exc |-> r.exc, msg |-> r.msg, logs |-> log \o r.logs]

LegLoop(leg_sections, k, acc, log) ==
    IF k > Len(leg_sections) THEN [ok |-> TRUE, legs |-> acc, logs |-> log]
    ELSE LegStep(leg_sections, k, acc, log, parse_leg(leg_sections[k]))

\* the except clause of parse_email: an AttributeError or ValueError is
\* logged as an error and raised again; other exceptions pass through
Reraise(exc, msg, log) ==
    [ok |-> FALSE, exc |-> exc, msg |-> msg,
     logs |-> IF exc \in {"AttributeError", "ValueError"}
              THEN Append(log, "error") ELSE log]

\* content.replace(...); ' '.join(content.split())
CleanContent(content0) == JoinSplit(ReplaceNewlines(content0))

\* parse_email from "if not order_type_match" on
FieldsTyped(text, order_id, date_received, order_type_match) ==
    IF ~order_type_match.ok
    THEN Reraise("ValueError", "No order type found", <<"error">>)
    ELSE [ok |-> TRUE,
          order_id |-> order_id,
          date_received |-> date_received,
          order_type |-> Strip(Group(order_type_match, text, 1).v)]

\* parse_email from the return of parse_datetime on
FieldsDated(text, order_id, date_received) ==
    IF ~date_received.ok
    THEN Reraise(date_received.exc, date_received.msg, date_received.logs)
    ELSE FieldsTyped(text, order_id, date_received.val,
                     Search(REGEX_PATTERNS["order_type"], text, FALSE))

\* parse_email from "if not date_received_match" on
FieldsReceived(text, order_id, date_received_match) ==
    IF ~date_received_match.ok
    THEN Reraise("ValueError", "No date received found", <<"error">>)
    ELSE FieldsDated(text, order_id,
                     parse_datetime(Group(date_received_match, text, 1).v))

\* parse_email from "if not order_id_match" on
FieldsIdentified(text, order_id_match) ==
    IF ~order_id_match.ok
    THEN Reraise("ValueError", "No order ID found", <<"error">>)
    ELSE FieldsReceived(text, Group(order_id_match, text, 1).v,
                        Search(REGEX_PATTERNS["date_received"], text, FALSE))

\* parse_email, "Extract basic trade information": the three header fields
\* of the cleaned text, or the exception raised on the way
ParseFields(text) ==
    FieldsIdentified(text, Search(REGEX_PATTERNS["order_id"], text, TRUE))

\* "if fill_details_section: ..."
SectionsOf(fill_details_section, text) ==
    IF fill_details_section.ok
    THEN LegSections(Group(fill_details_section, text, 1).v)
    ELSE <<>>

\* parse_email, "Extract legs": the leg sections of the cleaned text
FindLegSections(text) == SectionsOf(Search(FILL_DETAILS_PATTERN, text, FALSE), text)

\* "if not leg_sections: ... raise ValueError"
NoLegsFound == Reraise("ValueError", "No trade legs found", <<"error">>)

\* the header fields together with the leg sections
HeaderCut(fields, leg_sections) ==
    IF leg_sections = <<>> THEN NoLegsFound
    ELSE [ok |-> TRUE,
          order_id |-> fields.order_id,
          date_received |-> fields.date_received,
          order_type |-> fields.order_type,
          leg_sections |-> leg_sections]

\* parse_email of the cleaned text, from the header fields to the leg loop
HeaderOf(text, fields) ==
    IF ~fields.ok THEN fields ELSE HeaderCut(fields, FindLegSections(text))

\* parse_email of the cleaned text up to the leg loop
HeaderOfText(text) == HeaderOf(text, ParseFields(text))

\* parse_email up to the leg loop: the header fields and the leg sections,
\* or the exception raised on the way
ParseHeader(content0) == HeaderOfText(CleanContent(content0))

\* the end of parse_email: no leg parsed is a ValueError, else the Trade
FinishEmail(header, acc, log) ==
    IF acc = <<>>
    THEN Reraise("ValueError", "No valid legs parsed", log)
    ELSE [ok |-> TRUE,
          val |-> [order_id |-> header.order_id,
                   date_received |-> header.date_received,
                   order_type |-> header.order_type,
                   legs |-> acc],
          logs |-> log]

\* parse_email after the leg loop
EmailLooped(header, loop) ==
    IF ~loop.ok THEN Reraise(loop.exc, loop.msg, loop.logs)
    ELSE FinishEmail(header, loop.legs, loop.logs)

\* parse_email from the leg loop on
EmailHeaded(header) ==
    IF ~header.ok THEN header
    ELSE EmailLooped(header, LegLoop(header.leg_sections, 1, <<>>, <<>>))

\* parse_email(content): a Trade, or the exception raised
parse_email(content0) == EmailHeaded(ParseHeader(content0))

-----------------------------------------------------------------------------
(* TradeProcessor.preprocess_pdf_text                                      *)

NORM_RECEIVED_AT == Cat(<<Lit("Received"), Plus(s_), Lit("At")>>)      \* r'Received\s+At'
NORM_ORDER_TYPE ==                                                      \* r'Order\s+T\s*ype'
    Cat(<<Lit("Order"), Plus(s_), Lit("T"), Star(s_), Lit("ype")>>)
NORM_FILLED_AT ==                                                       \* r'Filled\s+at:+'
    Cat(<<Lit("Filled"), Plus(s_), Lit("at"), Plus(Set({":"}))>>)
NORM_TYPE == Cat(<<Lit("T"), Plus(s_), Lit("ype")>>)                    \* r'T\s+ype'
NORM_COLONS == Plus(Set({":"}))                                         \* r':+'
NORM_URL ==                                                             \* r'https?://\S+'
    Cat(<<Lit("http"), Opt(Lit("s")), Lit("://"), Plus(S_)>>)
\* r'\d{1,2}/\d{1,2}/\d{4},\s+\d{1,2}:\d{2}'
NORM_FOOTER_STAMP ==
    Cat(<<Rep(d_, 1, 2), Lit("/"), Rep(d_, 1, 2), Lit("/"), Rep(d_, 4, 4), Lit(","),
          Plus(s_), Rep(d_, 1, 2), Lit(":"), Rep(d_, 2, 2)>>)

\* "Remove any weird spacing around common tokens" and "Fix specific PDF
\* extraction artifacts"
FixLabels(text) ==
    Sub(NORM_COLONS, <<Txt(":")>>,
        Sub(NORM_TYPE, <<Txt("Type")>>,
            Sub(NORM_FILLED_AT, <<Txt("Filled at:")>>,
                Sub(NORM_ORDER_TYPE, <<Txt("Order Type:")>>,
                    Sub(NORM_RECEIVED_AT, <<Txt("Received At:")>>, text)))))

\* "Remove any PDF artifacts"
StripFooter(text) == Sub(NORM_FOOTER_STAMP, <<>>, Sub(NORM_URL, <<>>, text))

\* preprocess_pdf_text(text): the whitespace is normalised before the
\* footer artifacts are removed
preprocess_pdf_text(text) == StripFooter(JoinSplit(FixLabels(text)))

-----------------------------------------------------------------------------
(* TradeProcessor.extract_text_from_pdf and process_email_file             *)

\* str(n) for a natural number
RECURSIVE IntToStr(_)
IntToStr(n) ==
    IF n < 10 THEN Char(DigitChars, n + 1)
    ELSE IntToStr(n \div 10) \o Char(DigitChars, (n % 10) + 1)

\* n written with at least w digits
RECURSIVE Pad(_, _)
Pad(str, w) == IF Len(str) >= w THEN str ELSE Pad("0" \o str, w)

\* datetime.isoformat()
isoformat(d) ==
    Pad(IntToStr(d.year), 4) \o "-" \o Pad(IntToStr(d.month), 2) \o "-"
        \o Pad(IntToStr(d.day), 2) \o "T" \o Pad(IntToStr(d.hour), 2) \o ":"
        \o Pad(IntToStr(d.minute), 2) \o ":" \o Pad(IntToStr(d.second), 2)

\* extract_text_from_pdf: the text of every page, each followed by a
\* newline; a file PyPDF2 cannot read raises
extract_text_from_pdf(file) ==
    IF ~file.readable THEN [ok |-> FALSE, exc |-> "PdfReadError", msg |-> "cannot read"]
    ELSE Ok(ConcatStr([k \in 1..Len(file.pages) |-> file.pages[k] \o "\n"],
                      1, Len(file.pages)))

\* the entry of trade_dict for one leg; leg.expiration.isoformat() raises an
\* AttributeError when the expiration is None
LegDict(leg) ==
    IF leg.expiration.none THEN AttributeError("'NoneType' object has no attribute 'isoformat'")
    ELSE Ok([action |-> leg.action, quantity |-> leg.quantity, symbol |-> leg.symbol,
             expiration |-> isoformat(leg.expiration.v),
             option_type |-> leg.option_type, strike |-> leg.strike,
             fill_price |-> leg.fill_price, fill_time |-> isoformat(leg.fill_time)])

\* trade_dict, or the exception of the first leg that has no dictionary
TradeDict(trade, dicts) ==
    IF {k \in 1..Len(dicts) : ~dicts[k].ok} # {}
    THEN dicts[SetMin({k \in 1..Len(dicts) : ~dicts[k].ok})]
    ELSE Ok([order_id |-> trade.order_id,
             date_received |-> isoformat(trade.date_received),
             order_type |-> trade.order_type,
             legs |-> [k \in 1..Len(dicts) |-> dicts[k].val]])

\* process_email_file from the return of parse_email on
FileParsed(trade) ==
    IF ~trade.ok THEN [ok |-> FALSE, exc |-> trade.exc, msg |-> trade.msg]
    ELSE TradeDict(trade.val,
                   [k \in 1..Len(trade.val.legs) |-> LegDict(trade.val.legs[k])])

\* process_email_file from the return of extract_text_from_pdf on
FileExtracted(text) ==
    IF ~text.ok THEN text ELSE FileParsed(parse_email(preprocess_pdf_text(text.val)))

\* process_email_file: the record to write, or the exception it raises again
\* after logging it
process_email_file(file) == FileExtracted(extract_text_from_pdf(file))

-----------------------------------------------------------------------------
(* The inputs                                                              *)

\* all sequences over S of length at most n
SeqsUpTo(S, n) == UNION {[1..k -> S] : k \in 0..n}

\* the pieces of s joined, each preceded by sep
JoinWith(sep, pieces) ==
    ConcatStr([k \in 1..Len(pieces) |-> sep \o pieces[k]], 1, Len(pieces))

MaxFiles == 3
MaxLegs == 3
MaxGap == 2
MaxFrags == 3

GoodStamp == "Jan 5, 2024 9:30:00 AM EST"

\* leg segments as they stand in a confirmation
OptionLeg == "Bought 1 SPY 1/19/24 Call 450 @ 1.25 Filled at: " \o GoodStamp
OptionLeg2 == "Sold 2 QQQ 100 12/20/24 Put 400.5 @ 0.75 Filled at: Mar 15, 2024 12:31:00 PM EDT"
StockLeg == "Sold 10 AAPL @ 150.25 Filled at: " \o GoodStamp
NoFillLeg == "Sold 1 SPY 1/19/24 Put 440 @ 2.10"
BadStampLeg == "Bought 3 IWM 2/16/24 Call 200 @ 0.50 Filled at: Foo 5, 2024 9:30:00 AM EST"
NoStrikeLeg == "Bought 5 MSFT 3/15/24 Call @ 2.00 Filled at: " \o GoodStamp
SegTexts == {OptionLeg, OptionLeg2, StockLeg, NoFillLeg, BadStampLeg, NoStrikeLeg}

\* what stands before the fill details: a complete header, one without the
\* '#' of the order number, one whose timestamp names no month, and one
\* with neither an order number nor an order type
GoodHeader ==
    "order # 42\nReceived At Dec 31, 2023 11:59:59 PM EDT\nSubmitted Order ype: Market Day"
NoHashHeader == "Order 123456789 Received At: " \o GoodStamp \o " Submitted Order Type: Limit"
BadStampHeader == "Order #7 Received At: Foo 5, 2024 9:30:00 AM EST Submitted Order Type: Limit"
NoOrderHeader == "Received At: " \o GoodStamp \o " Order Type: Limit"
Headers == {GoodHeader, NoHashHeader, BadStampHeader, NoOrderHeader}

\* the leg blocks of at most n segments
Blocks(n) == {JoinWith(" ", segs) : segs \in SeqsUpTo(SegTexts, n)}

\* a confirmation text: the header, the fill details, the closing disclaimer
Document(header, block) ==
    header \o " Fill Details" \o block \o " If you have any questions, call us."

\* the contents parse_email is called with: the complete header before every
\* leg block, every header before the blocks of at most one segment, and a
\* text that has no fill details
Contents ==
    {Document(GoodHeader, block) : block \in Blocks(MaxLegs)}
        \cup {Document(header, block) : header \in Headers, block \in Blocks(1)}
        \cup {GoodHeader}

\* the leg segments parse_leg is called with
LegTexts ==
    {act \o " " \o core \o triple \o " @ " \o price \o fill :
        act \in {"Bought", "Sold"},
        core \in {"1 SPY", "12 QQQ 100"},
        triple \in {"", " 1/19/24 Call 450", " 12/20/2024 Put 400.5", " 1/19/24",
                    " Call 450", " 2/30/24 Put 7."},
        price \in {"1.25", "3"},
        fill \in {"", " Filled at: " \o GoodStamp,
                  " junk Filled at:Mar 15, 2024 12:00:01 PM EDT tail",
                  " Filled at: Foo 5, 2024 9:30:00 AM EST"}}

\* whitespace of length 1..n
Gaps(n) == {ConcatStr(g, 1, Len(g)) : g \in SeqsUpTo({" ", "\n"}, n) \ {<<>>}}

\* timestamps, and each with its AM/PM token split by whitespace
StampPairs ==
    {<<date \o " " \o time \o " " \o half[1] \o half[2] \o " " \o zone,
       date \o " " \o time \o " " \o half[1] \o gap \o half[2] \o " " \o zone>> :
        date \in {"Jan 5, 2024", "Dec 31, 1999", "Feb 30, 2024"},
        time \in {"9:30:00", "12:00:01", "11:59:59", "13:00:00"},
        half \in {<<"A", "M">>, <<"P", "M">>},
        zone \in {"EST", "EDT"},
        gap \in Gaps(MaxGap)}

\* raw texts: up to MaxFrags fragments of labels, colons, whitespace,
\* hyperlinks and footer timestamps
Fragments == {"Received", "At", "T", "ype", ":", " ", "\n", "a",
              "http://x", "12/25/2024,", "10:30"}
RawTexts == {ConcatStr(f, 1, Len(f)) : f \in SeqsUpTo(Fragments, MaxFrags)}

\* the documents of the data directory
GoodPdf ==
    [readable |-> TRUE,
     pages |-> <<"Order #7\nReceived At Jan 5, 2024 9:30:00 AM EST\nSubmitted Order T ype Limit",
                 "Fill Details\n" \o OptionLeg \o "\nhttps://x.y/z 1/5/2024, 10:30">>]
NoFillPdf ==
    [readable |-> TRUE,
     pages |-> <<"Order #8 Received At: " \o GoodStamp
                 \o " Submitted Order Type: Limit Fill Details " \o NoFillLeg>>]
NoLegsPdf ==
    [readable |-> TRUE,
     pages |-> <<"Order #9 Received At: " \o GoodStamp
                 \o " Submitted Order Type: Limit Fill Details none">>]
BrokenPdf == [readable |-> FALSE, pages |-> <<>>]
Pdfs == {GoodPdf, NoFillPdf, NoLegsPdf, BrokenPdf}

-----------------------------------------------------------------------------
(* The state machines                                                      *)

MainIdle ==
    /\ files = <<>> /\ idx = 0 /\ pc = "idle" /\ attempts = <<>>
    /\ output = <<>> /\ failed = {}
EmailIdle ==
    /\ content = "" /\ epc = "idle" /\ hdr = None /\ sections = <<>>
    /\ legIdx = 0 /\ legs = <<>> /\ logs = <<>> /\ parsed = <<>> /\ res = None
LegIdle == legText = "" /\ legRes = None
DtIdle == dtIn = <<"", "">> /\ dtRes = <<None, None>>
NormIdle == raw = "" /\ norm = <<>>

(* main *)

\* main, after construction: the documents globbed from the data directory
Init ==
    /\ files \in SeqsUpTo(Pdfs, MaxFiles)
    /\ idx = 0 /\ pc = "start"
    /\ attempts = [i \in 1..Len(files) |-> 0]
    /\ output = <<>> /\ failed = {}
    /\ EmailIdle /\ LegIdle /\ DtIdle /\ NormIdle

\* "if not pdf_files: ... return"
StartEmpty ==
    /\ pc = "start" /\ files = <<>>
    /\ pc' = "done"
    /\ UNCHANGED <<files, idx, attempts, output, failed, emailVars, legVars, dtVars, normVars>>

StartLoop ==
    /\ pc = "start" /\ files # <<>>
    /\ pc' = "loop"
    /\ UNCHANGED <<files, idx, attempts, output, failed, emailVars, legVars, dtVars, normVars>>

\* the output directory after the record of order id k is written: a file
\* of that name is overwritten
WriteJson(out, k, rec) ==
    IF \E j \in 1..Len(out) : out[j].order_id = k
    THEN [j \in 1..Len(out) |-> IF out[j].order_id = k THEN rec ELSE out[j]]
    ELSE Append(out, rec)

\* the for loop leaving at the first failure: what main would do without
\* its "except Exception: ... continue"
AbortBatch(i, n) == n

\* where the for loop goes on after document i of n raised: "continue"
AfterFailure(i, n) == i

\* the rest of one iteration of the for loop, r being what
\* process_email_file returned or raised: the record is written, or the
\* exception is logged and the loop goes on
FileDone(r) ==
    IF r.ok
    THEN /\ output' = WriteJson(output, r.val.order_id, r.val)
         /\ idx' = idx + 1
         /\ failed' = failed
    ELSE /\ failed' = failed \cup {idx + 1}
         /\ idx' = AfterFailure(idx + 1, Len(files))
         /\ output' = output

\* what process_email_file does with each document there can be in the
\* data directory
Processed == [file \in Pdfs |-> process_email_file(file)]

\* one iteration of the for loop
ProcessFile ==
    /\ pc = "loop" /\ idx < Len(files)
    /\ attempts' = [attempts EXCEPT ![idx + 1] = @ + 1]
    /\ FileDone(Processed[files[idx + 1]])
    /\ UNCHANGED <<files, pc, emailVars, legVars, dtVars, normVars>>

\* "Completed processing all files" and the summary
Finish ==
    /\ pc = "loop" /\ idx = Len(files)
    /\ pc' = "done"
    /\ UNCHANGED <<files, idx, attempts, output, failed, emailVars, legVars, dtVars, normVars>>

Next == StartEmpty \/ StartLoop \/ ProcessFile \/ Finish

Spec == Init /\ [][Next]_vars

\* the loop is sequential code: it takes its next step whenever it has one
FairSpec == Spec /\ WF_vars(Next)

(* parse_email, step by step *)

InitEmail ==
    /\ content \in Contents
    /\ epc = "fields" /\ hdr = None /\ sections = <<>>
    /\ legIdx = 0 /\ legs = <<>> /\ logs = <<>> /\ parsed = <<>> /\ res = None
    /\ MainIdle /\ LegIdle /\ DtIdle /\ NormIdle

\* the header fields f are kept, or their exception ends parse_email
FieldsDone(f) ==
    IF f.ok
    THEN /\ hdr' = f
         /\ epc' = "segment"
         /\ UNCHANGED <<res, logs>>
    ELSE /\ res' = f
         /\ logs' = f.logs
         /\ epc' = "done"
         /\ hdr' = hdr

\* "Extract basic trade information" on the cleaned content text
FieldsOf(text) ==
    /\ content' = text
    /\ FieldsDone(ParseFields(text))

\* "Clean up the content" and "Extract basic trade information"
EmailFields ==
    /\ epc = "fields"
    /\ FieldsOf(CleanContent(content))
    /\ UNCHANGED <<sections, legIdx, legs, parsed>>
    /\ UNCHANGED <<mainVars, legVars, dtVars, normVars>>

\* the leg sections s are kept, or "if not leg_sections" ends parse_email
SegmentDone(s) ==
    IF s # <<>>
    THEN /\ sections' = s
         /\ epc' = "legs"
         /\ UNCHANGED <<res, logs>>
    ELSE /\ res' = NoLegsFound
         /\ logs' = logs \o NoLegsFound.logs
         /\ epc' = "done"
         /\ sections' = sections

\* "Extract legs with their associated fill times"
EmailSegment ==
    /\ epc = "segment"
    /\ SegmentDone(FindLegSections(content))
    /\ UNCHANGED <<content, hdr, legIdx, legs, parsed>>
    /\ UNCHANGED <<mainVars, legVars, dtVars, normVars>>

\* the rest of one iteration of the leg loop, r being what parse_leg returned
\* or raised: the leg is appended, or skipped with a warning, or the
\* exception leaves the loop and goes through the except clause of parse_email
LegDone(r) ==
    /\ parsed' = Append(parsed, r)
    /\ IF r.ok
       THEN /\ legs' = Append(legs, r.val)
            /\ logs' = logs \o r.logs
            /\ UNCHANGED <<res, epc>>
       ELSE IF LegLoopCatches(r.exc)
       THEN /\ logs' = logs \o SkipLogs(r)
            /\ UNCHANGED <<legs, res, epc>>
       ELSE /\ res' = Reraise(r.exc, r.msg, logs \o r.logs)
            /\ logs' = Reraise(r.exc, r.msg, logs \o r.logs).logs
            /\ epc' = "done"
            /\ legs' = legs

\* one iteration of the leg loop
EmailLeg ==
    /\ epc = "legs" /\ legIdx < Len(sections)
    /\ LegDone(parse_leg(sections[legIdx + 1]))
    /\ legIdx' = legIdx + 1
    /\ UNCHANGED <<content, hdr, sections>>
    /\ UNCHANGED <<mainVars, legVars, dtVars, normVars>>

\* the loop is over: "if not legs" raises, else the Trade is returned
EmailFinish ==
    /\ epc = "legs" /\ legIdx = Len(sections)
    /\ res' = FinishEmail(hdr, legs, logs)
    /\ logs' = FinishEmail(hdr, legs, logs).logs
    /\ epc' = "done"
    /\ UNCHANGED <<content, hdr, sections, legIdx, legs, parsed>>
    /\ UNCHANGED <<mainVars, legVars, dtVars, normVars>>

NextEmail == EmailFields \/ EmailSegment \/ EmailLeg \/ EmailFinish

SpecParse == InitEmail /\ [][NextEmail]_vars

(* parse_leg *)

InitLeg ==
    /\ legText \in LegTexts /\ legRes = None
    /\ MainIdle /\ EmailIdle /\ DtIdle /\ NormIdle

\* the call of parse_leg on the segment legText
ParseLeg ==
    /\ legText # "" /\ legRes = None
    /\ legRes' = parse_leg(legText)
    /\ UNCHANGED <<legText, mainVars, emailVars, dtVars, normVars>>

NextLeg == ParseLeg

SpecLeg == InitLeg /\ [][NextLeg]_vars

\* parse_leg called on its own and from the leg loop of parse_email
SpecLegs == (InitLeg \/ InitEmail) /\ [][NextLeg \/ NextEmail]_vars

(* parse_datetime *)

InitDT ==
    /\ dtIn \in StampPairs /\ dtRes = <<None, None>>
    /\ MainIdle /\ EmailIdle /\ LegIdle /\ NormIdle

\* parse_datetime of the timestamp as written
ParseUnsplit ==
    /\ dtRes[1] = None
    /\ dtRes' = [dtRes EXCEPT ![1] = parse_datetime(dtIn[1])]
    /\ UNCHANGED <<dtIn, mainVars, emailVars, legVars, normVars>>

\* parse_datetime of the timestamp with its AM/PM token split
ParseSplit ==
    /\ dtRes[2] = None
    /\ dtRes' = [dtRes EXCEPT ![2] = parse_datetime(dtIn[2])]
    /\ UNCHANGED <<dtIn, mainVars, emailVars, legVars, normVars>>

NextDT == ParseUnsplit \/ ParseSplit

SpecDT == InitDT /\ [][NextDT]_vars

(* preprocess_pdf_text *)

InitNorm ==
    /\ raw \in RawTexts /\ norm = <<>>
    /\ MainIdle /\ EmailIdle /\ LegIdle /\ DtIdle

\* preprocess_pdf_text of the raw text
Normalize ==
    /\ norm = <<>>
    /\ norm' = <<preprocess_pdf_text(raw)>>
    /\ UNCHANGED <<raw, mainVars, emailVars, legVars, dtVars>>

\* preprocess_pdf_text of its own output
NormalizeAgain ==
    /\ Len(norm) = 1
    /\ norm' = Append(norm, preprocess_pdf_text(norm[1]))
    /\ UNCHANGED <<raw, mainVars, emailVars, legVars, dtVars>>

NextNorm == Normalize \/ NormalizeAgain

SpecNorm == InitNorm /\ [][NextNorm]_vars

-----------------------------------------------------------------------------
(* The properties                                                          *)

(* parse_datetime *)

\* C10: parse_datetime repairs the split AM/PM token: whenever a timestamp
\* parses, the same timestamp with its AM or PM written 'A M' or 'P M' (the
\* two letters apart by whitespace) parses too, and to the same datetime
C10_SplitAmPmParsesAlike ==
    (dtRes[1] # None /\ dtRes[2] # None /\ dtRes[1].ok)
        => (dtRes[2].ok /\ dtRes[2].val = dtRes[1].val)

\* the example of C10: both forms of 'Jan 5, 2024 9:30:00 AM EST' are parsed
C10_SplitStampParsed ==
    /\ dtIn = <<GoodStamp, "Jan 5, 2024 9:30:00 A M EST">>
    /\ dtRes[1] # None /\ dtRes[2] # None
    /\ dtRes[1].ok /\ dtRes[2].ok
    /\ dtRes[2].val = [year |-> 2024, month |-> 1, day |-> 5,
                       hour |-> 9, minute |-> 30, second |-> 0]

(* preprocess_pdf_text *)

\* C4: preprocess_pdf_text is idempotent: applied to its own output it
\* changes nothing
C4_NormalizeIdempotent == Len(norm) = 2 => norm[2] = norm[1]

(* parse_leg *)

\* the shape of a plain-security leg: action, quantity, symbol, '@ <price>'
\* and a 'Filled at:' clause with a well-formed timestamp, and nothing else
PLAIN_LEG ==
    Cat(<<BoughtSold_, Plus(s_), Plus(d_), Plus(s_), Plus(AZ_), Plus(s_),
          Lit("@"), Plus(s_), Number_, Plus(s_),
          Lit("Filled at: " \o GoodStamp), Eos>>)

PlainSecurityLeg(text) == MatchAt(PLAIN_LEG, text, 1, FALSE).ok

\* C1: parse_leg of a plain-security leg returns a TradeLeg whose
\* expiration, option_type and strike are all None; it never raises
C1_PlainLegParses ==
    (legRes # None /\ PlainSecurityLeg(legText))
        => /\ legRes.ok
           /\ legRes.val.expiration = None
           /\ legRes.val.option_type = None
           /\ legRes.val.strike = None

\* the three option fields of a leg are all set or all None
WholeTriple(leg) ==
    \/ leg.expiration.none /\ leg.option_type.none /\ leg.strike.none
    \/ ~leg.expiration.none /\ ~leg.option_type.none /\ ~leg.strike.none

\* C9: every TradeLeg parse_leg returns, every leg the loop of parse_email
\* collects and every leg of a Trade parse_email returns has expiration,
\* option_type and strike all set or all None
C9_OptionTripleAllOrNone ==
    /\ (legRes # None /\ legRes.ok) => WholeTriple(legRes.val)
    /\ \A k \in 1..Len(legs) : WholeTriple(legs[k])
    /\ (res # None /\ res.ok) => \A k \in 1..Len(res.val.legs) : WholeTriple(res.val.legs[k])

\* parse_leg has returned an option leg, all three fields set
C9_OptionLegReturned ==
    /\ legText = OptionLeg
    /\ legRes # None /\ legRes.ok
    /\ legRes.val.option_type = Some("Call")
    /\ legRes.val.strike = Some([ip |-> 450, fp |-> ""])
    /\ legRes.val.expiration = Some([year |-> 2024, month |-> 1, day |-> 19,
                                     hour |-> 0, minute |-> 0, second |-> 0])

(* parse_email *)

\* what parse_leg does with leg section k: what the loop recorded when it
\* got there, else what the call would return
Outcome(k) == IF k <= Len(parsed) THEN parsed[k] ELSE parse_leg(sections[k])

\* the legs of the sections parse_leg parsed, in document order
OkLegs ==
    LET oks == SelectSeq(parsed, LAMBDA r : r.ok)
    IN  [k \in 1..Len(oks) |-> oks[k].val]

\* the number of warnings in the log
Warnings(log) == Cardinality({k \in 1..Len(log) : log[k] = "warning"})

\* r'Filled\s+at'
FILLED_AT_LABEL == Cat(<<Lit("Filled"), Plus(s_), Lit("at")>>)

\* leg section k matches the leg grammar and has no 'Filled at' clause
NoFillTime(k) ==
    /\ Search(LEG_PATTERN, sections[k], FALSE).ok
    /\ ~Search(FILLED_AT_LABEL, sections[k], FALSE).ok

\* C2: a leg section that matches the leg grammar and has no fill time is
\* skipped with a warning and the other sections are still parsed: when
\* another section parses, parse_email returns a Trade
C2_NoFillTimeLegSkipped ==
    (/\ epc = "done"
     /\ \E k \in 1..Len(sections) :
            /\ NoFillTime(k)
            /\ \E j \in (1..Len(sections)) \ {k} : Outcome(j).ok)
        => /\ res.ok
           /\ Len(parsed) = Len(sections)
           /\ Warnings(logs) >= 1

\* leg section k does not match the leg grammar: parse_leg raises
\* "Invalid leg format" exactly when LEG_PATTERN finds no match
Malformed(k) == ~Outcome(k).ok /\ Outcome(k).msg = "Invalid leg format"

\* the leg sections are valid legs but for one malformed section
OneMalformed ==
    \E b \in 1..Len(sections) :
        /\ Malformed(b)
        /\ Len(sections) >= 2
        /\ \A k \in (1..Len(sections)) \ {b} : Outcome(k).ok

\* C3: N >= 1 valid leg sections and one malformed section, at any
\* position: parse_email returns a Trade with exactly the N valid legs and
\* logs exactly one warning
C3_OneMalformedSegmentSkipped ==
    (epc = "done" /\ OneMalformed)
        => /\ res.ok
           /\ Len(parsed) = Len(sections)
           /\ res.val.legs = OkLegs
           /\ Len(res.val.legs) = Len(sections) - 1
           /\ Warnings(logs) = 1

\* a Trade of two legs was returned for a block whose middle section is
\* malformed
C3_MiddleSegmentSkipped ==
    /\ epc = "done"
    /\ sections = <<OptionLeg, NoStrikeLeg, OptionLeg2>>
    /\ res.ok /\ Len(res.val.legs) = 2
    /\ res.val.legs[1].symbol = "SPY" /\ res.val.legs[2].symbol = "QQQ"
    /\ Warnings(logs) = 1

\* the 'Filled at:' time of the leg text reaches parse_datetime, which
\* raises: the leg pattern matched with a fill time and the expiration parsed
FillStampFailsIn(text, m) ==
    /\ m.ok
    /\ Truthy(Group(m, text, 8))
    /\ StrptimeExpiry(Group(m, text, 4).v).ok
    /\ ~parse_datetime(Group(m, text, 8).v).ok

\* the same of leg section k
BadFillStamp(k) ==
    /\ ~Outcome(k).ok
    /\ FillStampFailsIn(sections[k], Search(LEG_PATTERN, sections[k], FALSE))

\* the 'Received At' timestamp of the text is found and parse_datetime
\* raises on it
ReceivedStampFailsIn(text, m) ==
    m.ok /\ ~parse_datetime(Group(m, text, 1).v).ok

ReceivedStampFails(text) ==
    ReceivedStampFailsIn(text, Search(DATE_RECEIVED_PATTERN, text, FALSE))

\* C5 as stated: a leg whose 'Filled at:' time fails in parse_datetime makes
\* parse_email fail, whatever the other legs are
C5_BadFillStampIsFatal ==
    (epc = "done" /\ \E k \in 1..Len(sections) : BadFillStamp(k)) => ~res.ok

\* C5, amended: an unparseable 'Received At' timestamp makes parse_email
\* fail with its ValueError. A leg whose 'Filled at:' time fails in
\* parse_datetime is skipped with a warning and the sections after it are
\* parsed: when every other section is a valid leg and there is one,
\* parse_email returns a Trade with exactly the valid legs, one warning logged
\* for each leg skipped
C5_OnlyReceivedStampIsFatal ==
    /\ (epc = "done" /\ ReceivedStampFails(content))
           => (~res.ok /\ res.exc = "ValueError" /\ parsed = <<>>)
    /\ (/\ epc = "done"
        /\ \E k \in 1..Len(sections) : BadFillStamp(k)
        /\ \E k \in 1..Len(sections) : Outcome(k).ok
        /\ \A k \in 1..Len(sections) : Outcome(k).ok \/ BadFillStamp(k))
           => /\ res.ok
              /\ Len(parsed) = Len(sections)
              /\ res.val.legs = OkLegs
              /\ Warnings(logs) = Len(sections) - Len(OkLegs)

\* a Trade was returned although the fill time of its first leg section
\* failed to parse
C5_BadFillStampSkipped ==
    /\ epc = "done"
    /\ sections = <<BadStampLeg, OptionLeg>>
    /\ ~parsed[1].ok /\ parsed[1].exc = "ValueError"
    /\ res.ok /\ Len(res.val.legs) = 1 /\ res.val.legs[1].symbol = "SPY"
    /\ Warnings(logs) = 1

\* the first position from i on that holds no whitespace
SkipSpace(text, i) ==
    SetMin({j \in i..(Len(text) + 1) : j = Len(text) + 1 \/ Char(text, j) \notin Space})

\* the word "order", in any case, stands at position i and a '#' and a digit
\* follow it, whitespace apart
OrderLabelAt(text, i) ==
    /\ FoldStr(SubSeq(text, i, i + 4)) = "order"
    /\ SkipSpace(text, i + 5) <= Len(text)
    /\ Char(text, SkipSpace(text, i + 5)) = "#"
    /\ SkipSpace(text, SkipSpace(text, i + 5) + 1) <= Len(text)
    /\ Char(text, SkipSpace(text, SkipSpace(text, i + 5) + 1)) \in Digit

\* the text has an 'order #' label followed by digits
HasOrderLabel(text) == \E i \in 1..(Len(text) - 4) : OrderLabelAt(text, i)

\* C6: parse_email of a text that has no 'order #' label followed by digits
\* raises the ValueError "No order ID found", whatever else the text holds:
\* no other field is extracted and no leg parsed; and a Trade that is
\* returned has its order id
C6_NoOrderLabelFails ==
    /\ (epc = "done" /\ ~HasOrderLabel(content))
           => /\ ~res.ok
              /\ res.exc = "ValueError" /\ res.msg = "No order ID found"
              /\ hdr = None /\ parsed = <<>> /\ legs = <<>>
    /\ (epc = "done" /\ res.ok) => res.val.order_id # ""

\* parse_email has failed on a text whose order number has no '#', a valid
\* leg in its fill details
C6_NoHashRejected ==
    /\ epc = "done"
    /\ content = CleanContent(Document(NoHashHeader, " " \o OptionLeg))
    /\ ~HasOrderLabel(content)
    /\ ~res.ok /\ res.msg = "No order ID found"

\* the error of an order without legs: the ValueError of "if not
\* leg_sections" or of "if not legs"
NoValidLegsError(r) ==
    /\ ~r.ok
    /\ r.exc = "ValueError"
    /\ r.msg \in {"No trade legs found", "No valid legs parsed"}

\* C7: when the header fields are found and no leg section parses, or there
\* is no leg section, parse_email raises the error of an order without legs;
\* and a Trade that is returned has at least one leg
C7_NoValidLegsIsAnError ==
    /\ (epc = "done" /\ hdr # None /\ \A k \in 1..Len(sections) : ~Outcome(k).ok)
           => NoValidLegsError(res)
    /\ (epc = "done" /\ res.ok) => res.val.legs # <<>>

(* main *)

\* C8: main attempts every document of the data directory exactly once and
\* completes, whichever documents fail: no document is attempted twice, and
\* in the end the loop is over with one attempt made on each
C8_EveryDocumentAttempted ==
    /\ [](\A i \in 1..Len(files) : attempts[i] <= 1)
    /\ <>[](pc = "done" /\ \A i \in 1..Len(files) : attempts[i] = 1)

\* main is over, a document failed and a later one was written
C8_FailureThenSuccess ==
    /\ pc = "done"
    /\ \E i \in failed : \E j \in (i + 1)..Len(files) :
           /\ j \notin failed
           /\ attempts[j] = 1
    /\ output # <<>>

====
